---- MODULE Spec2Model ----
(***************************************************************************)
(* cache-buster (src/src/main.rs): content-hash the files under an assets  *)
(* root, rewrite the asset references of every .htm/.html document, then   *)
(* rename every indexed asset to {stem}_{hash}.{ext}.                      *)
(*                                                                         *)
(* Strings are sequences of one-character strings, so that prefix tests,   *)
(* separator stripping, URL parsing and file-name surgery are computed     *)
(* character by character as the code computes them.                       *)
(***************************************************************************)
EXTENDS Integers, Sequences, FiniteSets, TLC

VARIABLES
  fs,             \* the file system: path -> content (a sequence of attribute values)
  ignored_exts,   \* execute's ignored_exts argument
  assets_hashes,  \* execute's assets_hashes: path -> hex digest
  phase,          \* where execute is: "index", "docs", "rename", "done", or "match"
  status,         \* "running", "ok", "exit" (process::exit(1)), "panic", "err" (Err returned)
  walk,           \* entries the current WalkDir / keys() iteration has not yielded yet
  cur,            \* the document being rewritten (<<>> when none)
  buf,            \* the bytes fs::read returned that the rewriter has not consumed yet
  output,         \* the NamedTempFile's content so far
  fs0,            \* history: the file system when execute started
  replaced,       \* history: documents whose temp file was renamed over them
  renames,        \* history: <<from, to>> pairs the renaming pass performed
  src,            \* match_asset's src argument (reference matcher runs)
  key,            \* update_asset's path_str argument (reference matcher runs)
  out,            \* match_asset's result
  target          \* update_asset's result for key, as the renaming pass computes it

vars == <<fs, ignored_exts, assets_hashes, phase, status, walk, cur, buf, output,
          fs0, replaced, renames, src, key, out, target>>

----------------------------------------------------------------------------
(* Strings *)

\* str::starts_with
starts_with(s, p) == Len(p) <= Len(s) /\ SubSeq(s, 1, Len(p)) = p

\* str::ends_with
ends_with(s, p) == Len(p) <= Len(s) /\ SubSeq(s, Len(s) - Len(p) + 1, Len(s)) = p

\* Index of the first character of s that is in set cs; Len(s) + 1 when there is none.
FirstOf(s, cs) ==
  IF \E i \in 1..Len(s) : s[i] \in cs
  THEN CHOOSE i \in 1..Len(s) : s[i] \in cs /\ \A j \in 1..(i - 1) : s[j] \notin cs
  ELSE Len(s) + 1

\* Index of the last character of s that is in set cs; 0 when there is none.
LastOf(s, cs) ==
  IF \E i \in 1..Len(s) : s[i] \in cs
  THEN CHOOSE i \in 1..Len(s) : s[i] \in cs /\ \A j \in (i + 1)..Len(s) : s[j] \notin cs
  ELSE 0

HTTP == <<"h", "t", "t", "p", ":", "/", "/">>
HTTPS == <<"h", "t", "t", "p", "s", ":", "/", "/">>
DOT_HTM == <<".", "h", "t", "m">>
DOT_HTML == <<".", "h", "t", "m", "l">>

----------------------------------------------------------------------------
(* std::path::Path *)

\* Path::file_name of a path that names a file: the last component.
file_name(path) == SubSeq(path, LastOf(path, {"/"}) + 1, Len(path))

\* The directory part of a path, separator included (what set_file_name keeps).
parent_prefix(path) == SubSeq(path, 1, LastOf(path, {"/"}))

\* Where Path::file_stem and Path::extension split a file name: at its last dot,
\* unless there is none or the only dot is the first character (0: no split).
split_dot(name) ==
  LET d == LastOf(name, {"."}) IN IF d <= 1 THEN 0 ELSE d

\* Path::extension(..).is_some()
has_extension(path) == split_dot(file_name(path)) /= 0

\* Path::extension(..).unwrap()
extension(path) ==
  LET name == file_name(path) IN SubSeq(name, split_dot(name) + 1, Len(name))

\* Path::file_stem
file_stem(path) ==
  LET name == file_name(path) IN
  IF split_dot(name) = 0 THEN name ELSE SubSeq(name, 1, split_dot(name) - 1)

\* PathBuf::set_file_name
set_file_name(path, filename) == parent_prefix(path) \o filename

----------------------------------------------------------------------------
(* hash_file: the digest of a file's bytes as lowercase hex.  The digest is *)
(* a polynomial checksum of the bytes kept to 8 bits (two hex digits).      *)

Alphabet == <<"a", "b", "c", "d", "e", "f", "h", "j", "l", "m", "n", "o", "p", "q",
              "s", "t", "x", "H", "L", "0", "1", "2", "3", "4", "5", "6", "7", "8",
              "9", ".", "/", "_", ":", "?", "#", " ", "%", "[", "|">>

CharCode(c) == CHOOSE i \in 1..Len(Alphabet) : Alphabet[i] = c

HexDigits == <<"0", "1", "2", "3", "4", "5", "6", "7", "8", "9",
               "a", "b", "c", "d", "e", "f">>

\* format!("{:x}", hash)
hex(v) == <<HexDigits[(v \div 16) + 1], HexDigits[(v % 16) + 1]>>

RECURSIVE digest(_, _)
digest(bytes, h) ==
  IF bytes = <<>> THEN h
  ELSE digest(Tail(bytes), (h * 31 + CharCode(Head(bytes))) % 256)

\* The bytes of a file whose content is the given sequence of attribute values.
RECURSIVE file_bytes(_)
file_bytes(content) ==
  IF content = <<>> THEN <<>>
  ELSE Head(content) \o <<"|">> \o file_bytes(Tail(content))

hash_file(content) == hex(digest(file_bytes(content), 7))

----------------------------------------------------------------------------
(* update_asset, normalize_path *)

update_asset(path_str, assets) ==
  IF path_str \notin DOMAIN assets THEN path_str
  ELSE LET hash == assets[path_str]
           filename == file_stem(path_str) \o <<"_">> \o hash
                       \o (IF has_extension(path_str)
                           THEN <<".">> \o extension(path_str) ELSE <<>>)
       IN set_file_name(path_str, filename)

normalize_path(path) ==
  IF Len(path) > 0 /\ Head(path) = "/" THEN Tail(path) ELSE path

----------------------------------------------------------------------------
(* url::Url for http and https URLs: parse, path, host_str, set_path,       *)
(* into_string.  A parsed URL keeps its query with the leading "?" and its  *)
(* fragment with the leading "#" (<<>> when absent).                        *)

\* The host parser lowercases ASCII letters.
lower(c) == IF c = "H" THEN "h" ELSE IF c = "L" THEN "l" ELSE c

RECURSIVE lower_all(_)
lower_all(s) == IF s = <<>> THEN <<>> ELSE <<lower(Head(s))>> \o lower_all(Tail(s))

\* The path (and query, fragment) parser percent-encodes a space; the path
\* setter also encodes "?" and "#".
RECURSIVE percent_encode(_, _)
percent_encode(s, setter) ==
  IF s = <<>> THEN <<>>
  ELSE (IF Head(s) = " " THEN <<"%", "2", "0">>
        ELSE IF setter /\ Head(s) = "?" THEN <<"%", "3", "f">>
        ELSE IF setter /\ Head(s) = "#" THEN <<"%", "2", "3">>
        ELSE <<Head(s)>>) \o percent_encode(Tail(s), setter)

\* Code points a host may not contain.
ForbiddenHost == {"[", " ", "%", "|"}

\* Url::parse of a string that starts with http:// or https://.
url_parse(s) ==
  LET n == IF starts_with(s, HTTP) THEN Len(HTTP) ELSE Len(HTTPS)
      rest == SubSeq(s, n + 1, Len(s))
      authEnd == FirstOf(rest, {"/", "?", "#"})
      authority == SubSeq(rest, 1, authEnd - 1)
      after == SubSeq(rest, authEnd, Len(rest))
      pathEnd == FirstOf(after, {"?", "#"})
      rawPath == SubSeq(after, 1, pathEnd - 1)
      afterPath == SubSeq(after, pathEnd, Len(after))
      fragStart == FirstOf(afterPath, {"#"})
  IN [ok |-> authority /= <<>> /\ \A i \in 1..Len(authority) : authority[i] \notin ForbiddenHost,
      scheme |-> SubSeq(s, 1, n - 3),
      host |-> lower_all(authority),
      path |-> IF rawPath = <<>> THEN <<"/">> ELSE percent_encode(rawPath, FALSE),
      query |-> percent_encode(SubSeq(afterPath, 1, fragStart - 1), FALSE),
      fragment |-> percent_encode(SubSeq(afterPath, fragStart, Len(afterPath)), FALSE)]

\* Url::set_path on an http(s) URL: the path always starts with "/".
set_path(link, p) ==
  [link EXCEPT !.path = percent_encode(IF starts_with(p, <<"/">>) THEN p ELSE <<"/">> \o p, TRUE)]

\* Url::into_string
into_string(link) ==
  link.scheme \o <<":", "/", "/">> \o link.host \o link.path \o link.query \o link.fragment

\* links_asset without the host comparison.
links_asset_any_host(link, base_url, assets_path) ==
  starts_with(normalize_path(link.path), assets_path)

\* match_asset's test of a parsed link (line 100); has_host holds of every http(s) URL.
links_asset(link, base_url, assets_path) ==
  /\ link.host = base_url.host
  /\ starts_with(normalize_path(link.path), assets_path)

match_asset(s, base_url, assets_path, assets) ==
  LET link == url_parse(s)
      rel == normalize_path(s)
  IN IF (starts_with(s, HTTP) \/ starts_with(s, HTTPS)) /\ ~link.ok THEN s
     ELSE IF (starts_with(s, HTTP) \/ starts_with(s, HTTPS))
             /\ links_asset(link, base_url, assets_path)
     THEN into_string(set_path(link, update_asset(normalize_path(link.path), assets)))
     ELSE IF starts_with(rel, assets_path) THEN update_asset(rel, assets)
     ELSE rel

----------------------------------------------------------------------------
(* The run's configuration: main's `assets` and `base_url` *)

\* --assets a
AssetsRoot == normalize_path(<<"/", "a">>)

\* --base-url http://h
BaseUrl == url_parse(HTTP \o <<"h">>)

----------------------------------------------------------------------------
(* Reference matcher runs: match_asset and update_asset applied to drawn    *)
(* inputs.                                                                  *)

P_app == <<"a", "/", "x", ".", "j">>
P_map == <<"a", "/", "x", ".", "j", ".", "m">>
P_spaced == <<"a", "/", "s", " ", "t", ".", "j">>
P_license == <<"a", "/", "L">>
P_other == <<"n", ".", "j">>

\* Paths a reference can name.
RefPaths == {P_app, P_map, P_spaced, P_license, P_other}

\* Paths the index builder can insert (a file without extension never gets there).
KeyPaths == {P_app, P_map, P_spaced}

Digests == {<<"1", "f">>, <<"c", "0">>}

Hosts == {<<"h">>, <<"H">>, <<"o">>}

Suffixes == {<<>>, <<"?", "q">>, <<"#", "f">>, <<"?", "q", "#", "f">>}

\* The attribute values a document can carry for path p.
RefForms(p) ==
  {p, <<"/">> \o p}
  \cup {sch \o h \o <<"/">> \o p \o sfx : sch \in {HTTP, HTTPS}, h \in Hosts, sfx \in Suffixes}

SrcInputs ==
  UNION {RefForms(p) : p \in RefPaths}
  \cup {HTTP \o <<"[", "o">>, HTTP, HTTP \o <<"h">>}

Indexes == UNION {[K -> Digests] : K \in SUBSET KeyPaths}

MatchInit ==
  /\ phase = "match"
  /\ status = "running"
  /\ src \in SrcInputs
  /\ key \in KeyPaths
  /\ assets_hashes \in Indexes
  /\ out = <<>>
  /\ target = <<>>
  /\ fs = <<>> /\ fs0 = <<>> /\ ignored_exts = {} /\ walk = {}
  /\ cur = <<>> /\ buf = <<>> /\ output = <<>> /\ replaced = {} /\ renames = {}

\* A document handler's call of match_asset (lines 146-163).
MatchRef ==
  /\ phase = "match" /\ status = "running"
  /\ out' = match_asset(src, BaseUrl, AssetsRoot, assets_hashes)
  /\ status' = "ok"
  /\ UNCHANGED <<fs, ignored_exts, assets_hashes, phase, walk, cur, buf, output,
                 fs0, replaced, renames, src, key, target>>

\* The renaming pass's call of update_asset (line 184).
RenameTarget ==
  /\ phase = "match" /\ target = <<>>
  /\ target' = update_asset(key, assets_hashes)
  /\ UNCHANGED <<fs, ignored_exts, assets_hashes, phase, status, walk, cur, buf, output,
                 fs0, replaced, renames, src, key, out>>

MatchNext == MatchRef \/ RenameTarget

MatchSpec == MatchInit /\ [][MatchNext]_vars

----------------------------------------------------------------------------
(* execute: the file system it runs on *)

\* Attribute values per document, at most.
MaxAttrs == 2

F_index == <<"i", ".", "h", "t", "m", "l">>
F_page == <<"a", "/", "p", ".", "h", "t", "m">>

Blob1 == <<<<"1">>>>
Blob2 == <<<<"2">>>>

\* What an earlier run on the same bytes renamed a/x.j to.
F_stale == update_asset(P_app, P_app :> hash_file(Blob1))

DocRefs == {P_app, HTTP \o <<"h", "/">> \o P_app, P_other}

DocContents == UNION {[1..n -> DocRefs] : n \in 1..MaxAttrs}

\* The document under the assets root carries one attribute value.
PageContents == [1..1 -> DocRefs]

OptionalFiles == {F_stale, P_map, P_license, F_page}

FileSystems ==
  {[p \in {P_app, F_index} \cup S |->
      IF p = P_app THEN Blob1
      ELSE IF p = F_index THEN d1
      ELSE IF p = F_page THEN d2
      ELSE Blob2] :
   S \in SUBSET OptionalFiles, d1 \in DocContents, d2 \in PageContents}

\* WalkDir::new(assets_path) yields the files below the assets root (line 117).
under_assets(p) == starts_with(p, AssetsRoot \o <<"/">>)

\* The document test of line 138.
is_document(p) ==
  ends_with(file_name(p), DOT_HTM) \/ ends_with(file_name(p), DOT_HTML)

\* fs::rename: the destination is replaced when it exists.
rename(fsys, from, to) ==
  [p \in (DOMAIN fsys \ {from}) \cup {to} |-> IF p = to THEN fsys[from] ELSE fsys[p]]

Init ==
  /\ fs \in FileSystems
  /\ fs0 = fs
  /\ ignored_exts \in {{}, {<<"m">>}}
  /\ assets_hashes = <<>>
  /\ phase = "index"
  /\ status = "running"
  /\ walk = {p \in DOMAIN fs : under_assets(p)}
  /\ cur = <<>> /\ buf = <<>> /\ output = <<>>
  /\ replaced = {} /\ renames = {}
  /\ src = <<>> /\ key = <<>> /\ out = <<>> /\ target = <<>>

matcher_vars == <<src, key, out, target>>

----------------------------------------------------------------------------
(* execute, lines 116-132: building the index *)

\* Line 121: extension().unwrap() of a file name without extension.
IndexPanic ==
  /\ phase = "index" /\ status = "running"
  /\ \E p \in walk : ~has_extension(p)
  /\ status' = "panic"
  /\ UNCHANGED <<fs, ignored_exts, assets_hashes, phase, walk, cur, buf, output,
                 fs0, replaced, renames, matcher_vars>>

\* Line 121: the entry's extension is in ignored_exts.
IndexSkip ==
  /\ phase = "index" /\ status = "running"
  /\ \E p \in walk :
       /\ has_extension(p) /\ extension(p) \in ignored_exts
       /\ walk' = walk \ {p}
  /\ UNCHANGED <<fs, ignored_exts, assets_hashes, phase, status, cur, buf, output,
                 fs0, replaced, renames, matcher_vars>>

\* Lines 122-131: hash the entry and insert it.
IndexInsert ==
  /\ phase = "index" /\ status = "running"
  /\ \E p \in walk :
       /\ has_extension(p) /\ extension(p) \notin ignored_exts
       /\ assets_hashes' = (p :> hash_file(fs[p])) @@ assets_hashes
       /\ walk' = walk \ {p}
  /\ UNCHANGED <<fs, ignored_exts, phase, status, cur, buf, output,
                 fs0, replaced, renames, matcher_vars>>

\* Lines 125-128: hash_file failed.
IndexHashError ==
  /\ phase = "index" /\ status = "running"
  /\ \E p \in walk : has_extension(p) /\ extension(p) \notin ignored_exts
  /\ status' = "exit"
  /\ UNCHANGED <<fs, ignored_exts, assets_hashes, phase, walk, cur, buf, output,
                 fs0, replaced, renames, matcher_vars>>

\* Line 132 to 134: the first loop ends, WalkDir::new(source) starts.
IndexDone ==
  /\ phase = "index" /\ status = "running"
  /\ walk = {}
  /\ phase' = "docs"
  /\ walk' = DOMAIN fs
  /\ UNCHANGED <<fs, ignored_exts, assets_hashes, status, cur, buf, output,
                 fs0, replaced, renames, matcher_vars>>

----------------------------------------------------------------------------
(* execute, lines 134-181: rewriting the documents *)

\* Lines 138-140: not a document.
DocSkip ==
  /\ phase = "docs" /\ status = "running" /\ cur = <<>>
  /\ \E p \in walk :
       /\ ~is_document(p)
       /\ walk' = walk \ {p}
  /\ UNCHANGED <<fs, ignored_exts, assets_hashes, phase, status, cur, buf, output,
                 fs0, replaced, renames, matcher_vars>>

\* Lines 142-174: the temp file is created empty, the document is read whole.
DocOpen ==
  /\ phase = "docs" /\ status = "running" /\ cur = <<>>
  /\ \E p \in walk :
       /\ is_document(p)
       /\ cur' = p
       /\ buf' = fs[p]
       /\ output' = <<>>
  /\ UNCHANGED <<fs, ignored_exts, assets_hashes, phase, status, walk,
                 fs0, replaced, renames, matcher_vars>>

\* Line 142 or 143-167: NamedTempFile::new or HtmlRewriter::try_new failed.
DocOpenError ==
  /\ phase = "docs" /\ status = "running" /\ cur = <<>>
  /\ \E p \in walk : is_document(p) /\ cur' = p
  /\ status' = "err"
  /\ UNCHANGED <<fs, ignored_exts, assets_hashes, phase, walk, buf, output,
                 fs0, replaced, renames, matcher_vars>>

\* Lines 168-173: fs::read failed.
DocReadError ==
  /\ phase = "docs" /\ status = "running" /\ cur = <<>>
  /\ \E p \in walk : is_document(p) /\ cur' = p
  /\ status' = "exit"
  /\ output' = <<>>
  /\ UNCHANGED <<fs, ignored_exts, assets_hashes, phase, walk, buf,
                 fs0, replaced, renames, matcher_vars>>

\* DocWrite with the sink writing to the document itself instead of a temp file.
DocWriteInPlace ==
  /\ phase = "docs" /\ status = "running" /\ cur /= <<>>
  /\ buf /= <<>>
  /\ output' = Append(output, match_asset(Head(buf), BaseUrl, AssetsRoot, assets_hashes))
  /\ fs' = [fs EXCEPT ![cur] = output']
  /\ buf' = Tail(buf)
  /\ UNCHANGED <<ignored_exts, assets_hashes, phase, status, walk, cur,
                 fs0, replaced, renames, matcher_vars>>

\* Lines 146-166: a handler rewrites one attribute, the sink appends to the temp file.
DocWrite ==
  /\ phase = "docs" /\ status = "running" /\ cur /= <<>>
  /\ buf /= <<>>
  /\ output' = Append(output, match_asset(Head(buf), BaseUrl, AssetsRoot, assets_hashes))
  /\ buf' = Tail(buf)
  /\ UNCHANGED <<fs, ignored_exts, assets_hashes, phase, status, walk, cur,
                 fs0, replaced, renames, matcher_vars>>

\* Lines 174-175: rewriter.write or rewriter.end returned an error.
DocRewriteError ==
  /\ phase = "docs" /\ status = "running" /\ cur /= <<>>
  /\ status' = "err"
  /\ UNCHANGED <<fs, ignored_exts, assets_hashes, phase, walk, cur, buf, output,
                 fs0, replaced, renames, matcher_vars>>

\* Line 177: the temp file is renamed over the document.
DocFinalize ==
  /\ phase = "docs" /\ status = "running" /\ cur /= <<>>
  /\ buf = <<>>
  /\ fs' = [fs EXCEPT ![cur] = output]
  /\ replaced' = replaced \cup {cur}
  /\ walk' = walk \ {cur}
  /\ cur' = <<>>
  /\ output' = <<>>
  /\ UNCHANGED <<ignored_exts, assets_hashes, phase, status, buf,
                 fs0, renames, matcher_vars>>

\* Lines 177-180: that rename failed.
DocRenameError ==
  /\ phase = "docs" /\ status = "running" /\ cur /= <<>>
  /\ buf = <<>>
  /\ status' = "exit"
  /\ UNCHANGED <<fs, ignored_exts, assets_hashes, phase, walk, cur, buf, output,
                 fs0, replaced, renames, matcher_vars>>

\* docs_finished when the renaming pass does not wait for the document loop.
docs_finished_early == cur = <<>>

\* The second loop is over when WalkDir has yielded every entry (line 181).
docs_finished == walk = {} /\ cur = <<>>

\* Line 181 to 183: the renaming pass starts, over assets_hashes.keys().
DocsDone ==
  /\ phase = "docs" /\ status = "running"
  /\ docs_finished
  /\ phase' = "rename"
  /\ walk' = DOMAIN assets_hashes
  /\ UNCHANGED <<fs, ignored_exts, assets_hashes, status, cur, buf, output,
                 fs0, replaced, renames, matcher_vars>>

----------------------------------------------------------------------------
(* execute, lines 183-191: renaming the assets *)

\* Lines 184-185: one key, in whatever order the HashMap yields it.
RenameAsset ==
  /\ phase = "rename" /\ status = "running"
  /\ \E file \in walk :
       LET new_name == update_asset(file, assets_hashes) IN
       /\ file \in DOMAIN fs
       /\ fs' = rename(fs, file, new_name)
       /\ renames' = renames \cup {<<file, new_name>>}
       /\ walk' = walk \ {file}
  /\ UNCHANGED <<ignored_exts, assets_hashes, phase, status, cur, buf, output,
                 fs0, replaced, matcher_vars>>

\* Lines 185-188: fs::rename failed.
RenameError ==
  /\ phase = "rename" /\ status = "running"
  /\ walk /= {}
  /\ status' = "exit"
  /\ UNCHANGED <<fs, ignored_exts, assets_hashes, phase, walk, cur, buf, output,
                 fs0, replaced, renames, matcher_vars>>

\* Line 191: Ok(()).
RenameDone ==
  /\ phase = "rename" /\ status = "running"
  /\ walk = {}
  /\ phase' = "done"
  /\ status' = "ok"
  /\ UNCHANGED <<fs, ignored_exts, assets_hashes, walk, cur, buf, output,
                 fs0, replaced, renames, matcher_vars>>

Next ==
  \/ IndexPanic \/ IndexSkip \/ IndexInsert \/ IndexHashError \/ IndexDone
  \/ DocSkip \/ DocOpen \/ DocOpenError \/ DocReadError \/ DocWrite
  \/ DocRewriteError \/ DocFinalize \/ DocRenameError \/ DocsDone
  \/ RenameAsset \/ RenameError \/ RenameDone

Spec == Init /\ [][Next]_vars

----------------------------------------------------------------------------
(* Properties *)

\* HashedFilename as the data model defines it: {stem}_{hash}.{extension} beside
\* the original, the extension and its dot omitted when the path has none.
HashedFilename(path, hash) ==
  parent_prefix(path) \o file_stem(path) \o <<"_">> \o hash
  \o (IF has_extension(path) THEN <<".">> \o extension(path) ELSE <<>>)

\* The index a complete scan of the assets root builds.
CompleteIndex ==
  [p \in {q \in DOMAIN fs0 : under_assets(q) /\ has_extension(q)
                             /\ extension(q) \notin ignored_exts}
     |-> hash_file(fs0[p])]

Documents == {p \in DOMAIN fs0 : is_document(p)}

\* A document's content with every attribute value passed through match_asset.
Rewritten(content) ==
  [i \in DOMAIN content |-> match_asset(content[i], BaseUrl, AssetsRoot, assets_hashes)]

\* Where a file that started at p is now: the renaming pass may have moved it.
Location(p) ==
  IF \E r \in renames : r[1] = p THEN (CHOOSE r \in renames : r[1] = p)[2] ELSE p

IsHttp(s) == starts_with(s, HTTP) \/ starts_with(s, HTTPS)

\* s parses to an absolute URL on the base URL's host with a path under the assets root.
SameHostAssetUrl(s) ==
  /\ IsHttp(s)
  /\ url_parse(s).ok
  /\ url_parse(s).host = BaseUrl.host
  /\ starts_with(normalize_path(url_parse(s).path), AssetsRoot)

\* C1: after the renaming pass of a successful run, every key of the index has a
\* file at its HashedFilename and none at its original path.
C1_EveryKeyRenamed ==
  phase = "done" =>
    \A k \in DOMAIN assets_hashes :
      /\ HashedFilename(k, assets_hashes[k]) \in DOMAIN fs
      /\ k \notin DOMAIN fs

\* C2: the phases run in order.  Nothing is written to a temp file, no document is
\* replaced and no asset is renamed before the index holds the complete scan; from
\* then on the index stays that index; no asset is renamed before every document
\* has been replaced; and a run that fails while indexing or rewriting has renamed
\* no asset.
C2_PhasesInOrder ==
  /\ (output /= <<>> \/ replaced /= {} \/ renames /= {}) => assets_hashes = CompleteIndex
  /\ phase /= "index" => assets_hashes = CompleteIndex
  /\ renames /= {} => Documents \subseteq replaced
  /\ (status \in {"exit", "panic", "err"} /\ phase \in {"index", "docs"}) =>
       (renames = {} /\ DOMAIN fs = DOMAIN fs0)

\* C2's case: the renaming pass has renamed an asset after documents were replaced.
C2_Witness ==
  phase = "rename" /\ renames /= {} /\ replaced /= {} /\ walk /= {}

\* C3: a string that neither starts with the assets root after normalization nor
\* parses to a same-host URL under the assets root comes back identical, leading
\* separator included.
C3_NonAssetPassthrough ==
  (/\ phase = "match" /\ status = "ok"
   /\ ~starts_with(normalize_path(src), AssetsRoot)
   /\ ~SameHostAssetUrl(src))
  => out = src

\* C4: a file without extension under the assets root never crashes index building;
\* it is indexed and a successful run leaves it at {stem}_{hash}, no trailing dot.
C4_NoExtensionIndexed ==
  P_license \in DOMAIN fs0 =>
    /\ status /= "panic"
    /\ phase = "done" =>
         P_license \o <<"_">> \o hash_file(fs0[P_license]) \in DOMAIN fs

\* C5: for a key k of the index, the path update_asset moves k to is the path
\* match_asset puts in place of a reference to k, written as k, as /k, or as an
\* absolute URL on the base URL's host whose path is k.
C5_SameTargetBothSites ==
  (/\ phase = "match" /\ status = "ok" /\ target /= <<>>
   /\ key \in DOMAIN assets_hashes)
  => /\ src \in {key, <<"/">> \o key} => normalize_path(out) = target
     /\ \A sch \in {HTTP, HTTPS}, h \in Hosts, sfx \in Suffixes :
          (lower_all(h) = BaseUrl.host /\ src = sch \o h \o <<"/">> \o key \o sfx)
          => url_parse(out).path = percent_encode(<<"/">> \o target, TRUE)

\* C6: a reference /k to a key k of the index comes back as / followed by the
\* HashedFilename of k.
C6_LeadingSeparatorKept ==
  (/\ phase = "match" /\ status = "ok"
   /\ \E k \in DOMAIN assets_hashes : src = <<"/">> \o k)
  => out = <<"/">> \o HashedFilename(Tail(src), assets_hashes[Tail(src)])

C8_UnindexedUnchanged ==
  (phase = "match" /\ status = "ok")
  => /\ (/\ ~IsHttp(src)
         /\ starts_with(normalize_path(src), AssetsRoot)
         /\ normalize_path(src) \notin DOMAIN assets_hashes)
        => out = src
     /\ (/\ SameHostAssetUrl(src)
         /\ normalize_path(url_parse(src).path) \notin DOMAIN assets_hashes)
        => (IsHttp(out) /\ url_parse(out) = url_parse(src))

\* C9: the content on disk of every document is, at every point of a run, its
\* complete original content until the temp file replaces it and its complete
\* rewritten content from then on; a run that fails on a document leaves it as
\* it was.
C9_DocumentAtomic ==
  \A p \in Documents :
    /\ Location(p) \in DOMAIN fs
    /\ fs[Location(p)] = IF p \in replaced THEN Rewritten(fs0[p]) ELSE fs0[p]

\* C9's case: a rewrite failed after part of the output was written.
C9_Witness ==
  /\ phase = "docs" /\ status = "err"
  /\ cur \in Documents /\ output /= <<>> /\ buf /= <<>>
  /\ output /= SubSeq(fs0[cur], 1, Len(output))

\* C10: after a successful run the hash in a renamed asset's name is the digest of
\* the content the file has then; stated for the document under the assets root.
C10_PageHashIsOfFinalContent ==
  (phase = "done" /\ F_page \in DOMAIN assets_hashes)
  => LET new == HashedFilename(F_page, assets_hashes[F_page])
     IN /\ new \in DOMAIN fs
        /\ assets_hashes[F_page] = hash_file(fs[new])

====
